---------------------------- MODULE Spec2Model ----------------------------
(***************************************************************************)
(* Knowledge-base retrieval (web/src/lib/knowledgeBase.ts) and the overlay *)
(* relevance composer (web/src/lib/overlayRelevance.ts, isOnTaskCard of    *)
(* web/src/lib/rag.ts).                                                    *)
(*                                                                         *)
(* A JavaScript string is a sequence of one-character strings, so that     *)
(* toLowerCase, replace, split, includes, trim and template literals are   *)
(* computed character by character.  A value that may be null or undefined *)
(* is <<>> when it is null/undefined and <<v>> when it is v.               *)
(***************************************************************************)
EXTENDS Integers, Sequences, FiniteSets, TLC

(* ------------------------------ bounds --------------------------------- *)

\* longest corpus (number of chunks) the fetched JSON file may hold
MaxCorpusLen == 3

\* largest maxChunks argument of searchKB / searchKBSync
MaxK == 3

\* most searchKB calls that may be awaiting loadKnowledgeBase() at once
MaxWaiting == 1

\* connect() calls made on the GeminiLiveClient
MaxConnects == 2

\* messages the application submits to the GeminiLiveClient
MaxMessages == 2

(* ------------------------- null / undefined ---------------------------- *)

Null == <<>>

Some(v) == <<v>>

IsSet(o) == o # <<>>

Val(o) == o[1]

(* ------------------------------ strings -------------------------------- *)

LowerLetters ==
  {"a","b","c","d","e","f","g","h","i","j","k","l","m",
   "n","o","p","q","r","s","t","u","v","w","x","y","z"}

Digits == {"0","1","2","3","4","5","6","7","8","9"}

\* the characters the regular expression class \s matches
Whitespace == {" ", "\t", "\n"}

UpperLetters ==
  {"A","B","C","D","E","F","G","H","I","J","K","L","M",
   "N","O","P","Q","R","S","T","U","V","W","X","Y","Z"}

LowerOf ==
  [ch \in UpperLetters |->
     CASE ch = "A" -> "a" [] ch = "B" -> "b" [] ch = "C" -> "c" [] ch = "D" -> "d"
       [] ch = "E" -> "e" [] ch = "F" -> "f" [] ch = "G" -> "g" [] ch = "H" -> "h"
       [] ch = "I" -> "i" [] ch = "J" -> "j" [] ch = "K" -> "k" [] ch = "L" -> "l"
       [] ch = "M" -> "m" [] ch = "N" -> "n" [] ch = "O" -> "o" [] ch = "P" -> "p"
       [] ch = "Q" -> "q" [] ch = "R" -> "r" [] ch = "S" -> "s" [] ch = "T" -> "t"
       [] ch = "U" -> "u" [] ch = "V" -> "v" [] ch = "W" -> "w" [] ch = "X" -> "x"
       [] ch = "Y" -> "y" [] ch = "Z" -> "z"]

\* String.prototype.toLowerCase
toLowerCase(s) ==
  [i \in 1..Len(s) |-> IF s[i] \in UpperLetters THEN LowerOf[s[i]] ELSE s[i]]

\* String.prototype.includes
includes(hay, needle) ==
  \E i \in 0..(Len(hay) - Len(needle)) : SubSeq(hay, i + 1, i + Len(needle)) = needle

\* s.replace(/[^a-z0-9\s]/g, '')
StripNonAlnum(s) ==
  LET keep(ch) == ch \in LowerLetters \cup Digits \cup Whitespace
  IN  SelectSeq(s, keep)

\* s.split(/\s+/).filter(Boolean): the maximal runs of non-whitespace
RECURSIVE SplitWords(_, _)
SplitWords(s, cur) ==
  IF s = <<>> THEN (IF cur = <<>> THEN <<>> ELSE <<cur>>)
  ELSE IF Head(s) \in Whitespace
       THEN (IF cur = <<>> THEN <<>> ELSE <<cur>>) \o SplitWords(Tail(s), <<>>)
       ELSE SplitWords(Tail(s), Append(cur, Head(s)))

\* String.prototype.trim
RECURSIVE TrimStart(_)
TrimStart(s) ==
  IF s # <<>> /\ Head(s) \in Whitespace THEN TrimStart(Tail(s)) ELSE s

RECURSIVE TrimEnd(_)
TrimEnd(s) ==
  IF s # <<>> /\ s[Len(s)] \in Whitespace THEN TrimEnd(SubSeq(s, 1, Len(s) - 1)) ELSE s

trim(s) == TrimEnd(TrimStart(s))

DigitChar == <<"0","1","2","3","4","5","6","7","8","9">>

\* `${n}` for a non-negative integer n: its decimal digits
RECURSIVE NumberToString(_)
NumberToString(n) ==
  IF n < 10 THEN <<DigitChar[n + 1]>>
  ELSE NumberToString(n \div 10) \o <<DigitChar[(n % 10) + 1]>>

\* Array.prototype.join
RECURSIVE join(_, _)
join(parts, sep) ==
  IF parts = <<>> THEN <<>>
  ELSE IF Len(parts) = 1 THEN parts[1]
  ELSE parts[1] \o sep \o join(Tail(parts), sep)

(* ------------------------- manuals (constants) ------------------------- *)

\* chunk.manual is a key; an absent key is Null
MANUAL_PDFS(key) ==
  CASE key = "cessna172" -> Some(<<"/", "m", "a", "n", "u", "a", "l", "s", "/", "c", "e", "s", "s", "n", "a", "1", "7", "2", "-", "s", "m", ".", "p", "d", "f">>)
    [] key = "o320"      -> Some(<<"/", "m", "a", "n", "u", "a", "l", "s", "/", "o", "3", "2", "0", "-", "o", "p", "e", "r", "a", "t", "o", "r", "s", "-", "m", "a", "n", "u", "a", "l", ".", "p", "d", "f">>)
    [] OTHER             -> Null

MANUAL_NAMES(key) ==
  CASE key = "cessna172" -> Some(<<"C", "e", "s", "s", "n", "a", " ", "S", "M">>)
    [] key = "o320"      -> Some(<<"O", "-", "3", "2", "0", " ", "O", "M">>)
    [] OTHER             -> Null

\* chunk.manual || 'cessna172'
ManualKey(chunk) == IF IsSet(chunk.manual) THEN Val(chunk.manual) ELSE "cessna172"

getPdfForChunk(chunk, defaultPdf) ==
  IF IsSet(MANUAL_PDFS(ManualKey(chunk))) THEN Val(MANUAL_PDFS(ManualKey(chunk)))
  ELSE defaultPdf

getManualName(chunk) ==
  IF IsSet(MANUAL_NAMES(ManualKey(chunk))) THEN Val(MANUAL_NAMES(ManualKey(chunk)))
  ELSE <<"S", "M">>

(* ------------------- contents of /cessna172-kb.json -------------------- *)

\* KBChunk records the fetched file may hold
ChunkPool ==
  << [id |-> "sparkplug", component |-> <<"S", "p", "a", "r", "k", " ", "P", "l", "u", "g">>,
      keywords |-> <<<<"s", "p", "a", "r", "k", " ", "p", "l", "u", "g">>, <<"p", "l", "u", "g">>>>,
      section |-> <<"1", "1">>, sectionTitle |-> <<"I", "g", "n", "i", "t", "i", "o", "n">>, page |-> 3,
      figure |-> Some(<<"7">>), figureTitle |-> Some(<<"P", "l", "u", "g">>),
      content |-> <<"p", "l", "u", "g", " ", "g", "a", "p">>, manual |-> Null],
     [id |-> "o320", component |-> <<"O", "-", "3", "2", "0">>,
      keywords |-> <<<<"e", "n", "g", "i", "n", "e">>, <<"p", "l", "u", "g">>>>,
      section |-> <<"2">>, sectionTitle |-> <<"E", "n", "g", "i", "n", "e">>, page |-> 3,
      figure |-> Null, figureTitle |-> Null,
      content |-> <<"e", "n", "g", "i", "n", "e">>, manual |-> Some("o320")],
     [id |-> "drainplug", component |-> <<"D", "r", "a", "i", "n", " ", "P", "l", "u", "g">>,
      keywords |-> <<<<"d", "r", "a", "i", "n">>, <<"p", "l", "u", "g">>>>,
      section |-> <<"1", "2">>, sectionTitle |-> <<"F", "u", "e", "l">>, page |-> 3,
      figure |-> Null, figureTitle |-> Null,
      content |-> <<"f", "u", "e", "l", " ", "d", "r", "a", "i", "n">>, manual |-> Some("cessna172")],
     [id |-> "brake", component |-> <<"B", "r", "a", "k", "e">>,
      keywords |-> <<<<"b", "r", "a", "k", "e">>>>,
      section |-> <<"5">>, sectionTitle |-> <<"W", "h", "e", "e", "l", "s">>, page |-> 12,
      figure |-> Null, figureTitle |-> Null,
      content |-> <<"b", "r", "a", "k", "e", " ", "p", "a", "d">>, manual |-> Some("cleveland")],
     [id |-> "tire", component |-> <<"T", "i", "r", "e">>,
      keywords |-> <<<<"t", "i", "r", "e">>, <<"w", "h", "e", "e", "l">>>>,
      section |-> <<"5">>, sectionTitle |-> <<"W", "h", "e", "e", "l", "s">>, page |-> 12,
      figure |-> Null, figureTitle |-> Null,
      content |-> <<"t", "i", "r", "e", " ", "w", "e", "a", "r">>, manual |-> Some("goodyear")] >>

RECURSIVE DistinctSeqs(_, _)
\* the sequences of at most n distinct elements of S
DistinctSeqs(S, n) ==
  IF n = 0 THEN {<<>>}
  ELSE {<<>>} \cup
       UNION {{<<x>> \o t : t \in DistinctSeqs(S \ {x}, n - 1)} : x \in S}

KBManual ==
  [title |-> <<"C", "e", "s", "s", "n", "a", " ", "1", "7", "2">>, documentNumber |-> <<"D", "2", "0", "6", "5">>, revision |-> <<"3">>,
   totalPages |-> 20, pdfFile |-> <<"/", "m", "a", "n", "u", "a", "l", "s", "/", "c", "e", "s", "s", "n", "a", "1", "7", "2", "-", "s", "m", ".", "p", "d", "f">>]

\* the KBData values res.json() may yield
Corpora ==
  {[manual |-> KBManual, chunks |-> [i \in 1..Len(ix) |-> ChunkPool[ix[i]]]] :
     ix \in DistinctSeqs(1..Len(ChunkPool), MaxCorpusLen)}

\* a chunk record whose page is not a page number (page < 1)
PageZeroChunk == [ChunkPool[1] EXCEPT !.id = "sparkplug-cover", !.page = 0]

\* a chunk record that repeats the id of the first chunk of ChunkPool
DuplicateIdChunk == [ChunkPool[3] EXCEPT !.id = ChunkPool[1].id]

\* KBData values that break the chunk invariants of the data model, which
\* res.json() may yield as well
InvalidCorpora ==
  {[manual |-> KBManual, chunks |-> cs] :
     cs \in {<<PageZeroChunk>>, <<ChunkPool[1], PageZeroChunk>>,
             <<ChunkPool[1], DuplicateIdChunk>>}}

\* every KBData value the fetch may deliver
FetchedData == Corpora \cup InvalidCorpora

\* a knowledge base without chunks that keeps the metadata of the manual
KBWithoutChunks == [manual |-> KBManual, chunks |-> <<>>]

\* the KBData the catch handler installs
EmptyKB ==
  [manual |-> [title |-> <<>>, documentNumber |-> <<>>, revision |-> <<>>,
               totalPages |-> 0, pdfFile |-> <<>>],
   chunks |-> <<>>]

(* ------------------------------ scoring -------------------------------- *)

RECURSIVE Sum(_)
Sum(s) == IF s = <<>> THEN 0 ELSE Head(s) + Sum(Tail(s))

\* componentLabel.toLowerCase().replace(/[^a-z0-9\s]/g, '')
NormalizeQuery(componentLabel) == StripNonAlnum(toLowerCase(componentLabel))

QueryWords(query) == SplitWords(query, <<>>)

\* [...chunk.keywords, chunk.component, chunk.sectionTitle].map(toLowerCase)
allKeywords(chunk) ==
  LET all == chunk.keywords \o <<chunk.component, chunk.sectionTitle>>
  IN  [i \in 1..Len(all) |-> toLowerCase(all[i])]

\* the variant that takes the best award any keyword gives, wherever it stands
WordScoreBestMatch(word, kws) ==
  IF \E i \in 1..Len(kws) : kws[i] = word THEN 10
  ELSE IF \E i \in 1..Len(kws) : includes(kws[i], word) THEN 5
  ELSE IF \E i \in 1..Len(kws) : includes(word, kws[i]) /\ Len(kws[i]) > 3 THEN 3
  ELSE 0

\* the inner loop over allKeywords for one query word: the first keyword that
\* satisfies one of the three tests sets the award and ends the loop
RECURSIVE WordScore(_, _)
WordScore(word, kws) ==
  IF kws = <<>> THEN 0
  ELSE LET kw == Head(kws)
       IN  IF kw = word THEN 10
           ELSE IF includes(kw, word) THEN 5
           ELSE IF includes(word, kw) /\ Len(kw) > 3 THEN 3
           ELSE WordScore(word, Tail(kws))

\* "Full phrase match in keywords": +20 ends the loop, +8 does not
RECURSIVE PhraseScore(_, _)
PhraseScore(query, keywords) ==
  IF keywords = <<>> THEN 0
  ELSE LET kw == Head(keywords)
       IN  IF toLowerCase(kw) = query THEN 20
           ELSE (IF includes(query, toLowerCase(kw)) /\ Len(kw) > 3 THEN 8 ELSE 0)
                + PhraseScore(query, Tail(keywords))

\* the +20 of the keyword loop: some keyword, lower-cased, is the query (the loop
\* always reaches it, since only the +20 itself ends the loop)
ExactKeywordAward(query, keywords) ==
  IF \E i \in 1..Len(keywords) : toLowerCase(keywords[i]) = query THEN 20 ELSE 0

\* the +25 of the component tests: the component, lower-cased, is the query
ExactComponentAward(query, chunk) ==
  IF toLowerCase(chunk.component) = query THEN 25 ELSE 0

\* "Component name match"
ComponentScore(query, chunk) ==
  (IF toLowerCase(chunk.component) = query THEN 25 ELSE 0)
  + (IF includes(query, toLowerCase(chunk.component)) THEN 12 ELSE 0)
  + (IF includes(toLowerCase(chunk.component), query) THEN 12 ELSE 0)

\* "Content contains query words"
ContentScore(queryWords, chunk) ==
  Sum([i \in 1..Len(queryWords) |->
         IF Len(queryWords[i]) > 3 /\ includes(toLowerCase(chunk.content), queryWords[i])
         THEN 2 ELSE 0])

\* the score searchKB gives chunk for the label
Score(componentLabel, chunk) ==
  LET query == NormalizeQuery(componentLabel)
      queryWords == QueryWords(query)
      kws == allKeywords(chunk)
  IN  Sum([i \in 1..Len(queryWords) |-> WordScore(queryWords[i], kws)])
      + PhraseScore(query, chunk.keywords)
      + ComponentScore(query, chunk)
      + ContentScore(queryWords, chunk)

\* the inner loop of searchKBSync for one query word
SyncWordScore(word, allKw) ==
  IF \E i \in 1..Len(allKw) : includes(allKw[i], word) \/ includes(word, allKw[i])
  THEN 5 ELSE 0

\* the score searchKBSync gives chunk for the label
ScoreSync(componentLabel, chunk) ==
  LET query == NormalizeQuery(componentLabel)
      queryWords == QueryWords(query)
      all == Append(chunk.keywords, chunk.component)
      allKw == [i \in 1..Len(all) |-> toLowerCase(all[i])]
  IN  Sum([i \in 1..Len(queryWords) |-> SyncWordScore(queryWords[i], allKw)])
      + (IF includes(toLowerCase(chunk.component), query)
            \/ includes(query, toLowerCase(chunk.component))
         THEN 15 ELSE 0)

(* --------------------------- filter and sort --------------------------- *)

\* the variant that puts x in front of the elements with an equal score
RECURSIVE InsertByScoreBeforeTies(_, _)
InsertByScoreBeforeTies(sorted, x) ==
  IF sorted = <<>> THEN <<x>>
  ELSE IF Head(sorted).score > x.score
       THEN <<Head(sorted)>> \o InsertByScoreBeforeTies(Tail(sorted), x)
       ELSE <<x>> \o sorted

\* x goes behind every element whose score is not smaller: equal scores keep
\* their order (Array.prototype.sort is stable)
RECURSIVE InsertByScore(_, _)
InsertByScore(sorted, x) ==
  IF sorted = <<>> THEN <<x>>
  ELSE IF Head(sorted).score >= x.score
       THEN <<Head(sorted)>> \o InsertByScore(Tail(sorted), x)
       ELSE <<x>> \o sorted

\* .sort((a, b) => b.score - a.score)
RECURSIVE sortByScore(_)
sortByScore(s) ==
  IF s = <<>> THEN <<>>
  ELSE InsertByScore(sortByScore(SubSeq(s, 1, Len(s) - 1)), s[Len(s)])

\* .slice(0, n) for n >= 0
slice(s, n) == SubSeq(s, 1, IF n < Len(s) THEN n ELSE Len(s))

\* the variant that truncates before it sorts
MatchesSliceThenSort(scored, maxChunks) ==
  LET positive(s) == s.score > 0
  IN  sortByScore(slice(SelectSeq(scored, positive), maxChunks))

\* the variant without the filter: chunks that score 0 are ranked too
MatchesWithoutFilter(scored, maxChunks) == slice(sortByScore(scored), maxChunks)

\* scored.filter(s => s.score > 0).sort(...).slice(0, maxChunks)
Matches(scored, maxChunks) ==
  LET positive(s) == s.score > 0
  IN  slice(sortByScore(SelectSeq(scored, positive)), maxChunks)

\* kb.chunks.map(chunk => ({chunk, score})) of searchKB
Scored(chunks, componentLabel) ==
  [i \in 1..Len(chunks) |-> [chunk |-> chunks[i], score |-> Score(componentLabel, chunks[i])]]

\* _kb.chunks.map(chunk => ({chunk, score})) of searchKBSync
ScoredSync(chunks, componentLabel) ==
  [i \in 1..Len(chunks) |->
     [chunk |-> chunks[i], score |-> ScoreSync(componentLabel, chunks[i])]]

ChunksOf(matches) == [i \in 1..Len(matches) |-> matches[i].chunk]

\* kb.chunks with the stored array itself sorted by score
ChunksSortedInPlace(chunks, componentLabel) ==
  ChunksOf(sortByScore(Scored(chunks, componentLabel)))

\* kb.chunks after searchKB: map and filter return new arrays, so sort reorders
\* the filtered copy and the stored array keeps its order
ChunksAfterSearch(chunks, componentLabel) == chunks

\* _kb.chunks with the stored array itself sorted by the searchKBSync score
ChunksSortedInPlaceSync(chunks, componentLabel) ==
  ChunksOf(sortByScore(ScoredSync(chunks, componentLabel)))

\* _kb.chunks after searchKBSync: the stored array keeps its order
ChunksAfterSearchSync(chunks, componentLabel) == chunks

(* ------------------------------ results -------------------------------- *)

\* the ManualRef built for a chunk
RefOf(chunk, defaultPdf) ==
  [page |-> chunk.page,
   section |-> chunk.section,
   sectionTitle |-> chunk.sectionTitle,
   figure |-> chunk.figure,
   figureTitle |-> chunk.figureTitle,
   pdfUrl |-> getPdfForChunk(chunk, defaultPdf) \o <<"#", "p", "a", "g", "e", "=">> \o NumberToString(chunk.page),
   manualName |-> getManualName(chunk)]

\* `${r.manualName}:${r.page}`
RefKey(r) == r.manualName \o <<":">> \o NumberToString(r.page)

\* the variant without the seenKeys filter
AllRefs(refs) == refs

\* the variant in which the last ref of a key is the one kept
UniqueRefsLastWins(refs) ==
  LET last(i) == \A j \in (i + 1)..Len(refs) : RefKey(refs[j]) # RefKey(refs[i])
      RECURSIVE keep(_)
      keep(i) == IF i > Len(refs) THEN <<>>
                 ELSE (IF last(i) THEN <<refs[i]>> ELSE <<>>) \o keep(i + 1)
  IN  keep(1)

\* the variant that collects the kept refs newest first
UniqueRefsNewestFirst(refs) ==
  LET first(i) == \A j \in 1..(i - 1) : RefKey(refs[j]) # RefKey(refs[i])
      RECURSIVE keep(_)
      keep(i) == IF i > Len(refs) THEN <<>>
                 ELSE keep(i + 1) \o (IF first(i) THEN <<refs[i]>> ELSE <<>>)
  IN  keep(1)

\* refs.filter(r => first time its key is seen)
UniqueRefs(refs) ==
  LET first(i) == \A j \in 1..(i - 1) : RefKey(refs[j]) # RefKey(refs[i])
      RECURSIVE keep(_)
      keep(i) == IF i > Len(refs) THEN <<>>
                 ELSE (IF first(i) THEN <<refs[i]>> ELSE <<>>) \o keep(i + 1)
  IN  keep(1)

\* a string interpolated into a template literal; null prints as "null"
Interpolate(o) == IF IsSet(o) THEN Val(o) ELSE <<"n", "u", "l", "l">>

\* the variant whose prefix never has the figure part
ContextEntryWithoutFigure(chunk) ==
  <<"[">> \o getManualName(chunk) \o <<" ", "S", "e", "c", "t", "i", "o", "n", " ">> \o chunk.section \o <<",", " ", "p", ".">>
  \o NumberToString(chunk.page) \o <<"]", ":", " ">> \o chunk.content

\* one entry of searchKB's contextText
ContextEntry(chunk) ==
  LET fig == IF IsSet(chunk.figure) /\ Val(chunk.figure) # <<>>
             THEN <<" ", "(", "F", "i", "g", "u", "r", "e", " ">> \o Val(chunk.figure) \o <<":", " ">>
                  \o Interpolate(chunk.figureTitle) \o <<")">>
             ELSE <<>>
  IN  <<"[">> \o getManualName(chunk) \o <<" ", "S", "e", "c", "t", "i", "o", "n", " ">> \o chunk.section \o <<",", " ", "p", ".">>
      \o NumberToString(chunk.page) \o fig \o <<"]", ":", " ">> \o chunk.content

\* one entry of searchKBSync's contextText
ContextEntrySync(chunk) ==
  <<"[">> \o getManualName(chunk) \o <<" ", "p", ".">> \o NumberToString(chunk.page) \o <<"]", ":", " ">>
  \o chunk.content

\* kb.manual.pdfFile || '/manuals/cessna172-sm.pdf'
DefaultPdf(kb) ==
  IF kb.manual.pdfFile # <<>> THEN kb.manual.pdfFile ELSE <<"/", "m", "a", "n", "u", "a", "l", "s", "/", "c", "e", "s", "s", "n", "a", "1", "7", "2", "-", "s", "m", ".", "p", "d", "f">>

\* the variant whose context text is a notice instead of the empty string
EmptyResultWithNotice ==
  [chunks |-> <<>>, primaryRef |-> Null, refs |-> <<>>, contextText |-> <<"N", "o", " ", "m", "a", "t", "c", "h", "e", "s">>]

EmptyResult == [chunks |-> <<>>, primaryRef |-> Null, refs |-> <<>>, contextText |-> <<>>]

\* the KBSearchResult searchKB resolves to once kb is loaded
SearchKBResult(kb, componentLabel, maxChunks) ==
  IF Len(kb.chunks) = 0 THEN EmptyResult
  ELSE LET matches == Matches(Scored(kb.chunks, componentLabel), maxChunks)
           refs == [i \in 1..Len(matches) |-> RefOf(matches[i].chunk, DefaultPdf(kb))]
           uniqueRefs == UniqueRefs(refs)
       IN  IF Len(matches) = 0 THEN EmptyResult
           ELSE [chunks |-> ChunksOf(matches),
                 primaryRef |-> IF uniqueRefs # <<>> THEN Some(uniqueRefs[1]) ELSE Null,
                 refs |-> uniqueRefs,
                 contextText |->
                   join([i \in 1..Len(matches) |-> ContextEntry(matches[i].chunk)],
                        <<"\n", "\n">>)]

\* the variant that answers with an empty KBSearchResult while nothing is loaded
SearchKBSyncResultEmptyUntilLoaded(kbOpt, componentLabel, maxChunks) ==
  IF ~IsSet(kbOpt) THEN Some(EmptyResult)
  ELSE LET kb == Val(kbOpt)
           matches == Matches(ScoredSync(kb.chunks, componentLabel), maxChunks)
           refs == UniqueRefs([i \in 1..Len(matches) |->
                                 RefOf(matches[i].chunk, DefaultPdf(kb))])
       IN  IF Len(matches) = 0 THEN Null
           ELSE Some([chunks |-> ChunksOf(matches),
                      primaryRef |-> IF refs # <<>> THEN Some(refs[1]) ELSE Null,
                      refs |-> refs,
                      contextText |->
                        join([i \in 1..Len(matches) |-> ContextEntrySync(matches[i].chunk)],
                             <<"\n">>)])

\* what searchKBSync returns: Null, or the KBSearchResult
SearchKBSyncResult(kbOpt, componentLabel, maxChunks) ==
  IF ~IsSet(kbOpt) THEN Null
  ELSE LET kb == Val(kbOpt)
           matches == Matches(ScoredSync(kb.chunks, componentLabel), maxChunks)
           refs == UniqueRefs([i \in 1..Len(matches) |->
                                 RefOf(matches[i].chunk, DefaultPdf(kb))])
       IN  IF Len(matches) = 0 THEN Null
           ELSE Some([chunks |-> ChunksOf(matches),
                      primaryRef |-> IF refs # <<>> THEN Some(refs[1]) ELSE Null,
                      refs |-> refs,
                      contextText |->
                        join([i \in 1..Len(matches) |-> ContextEntrySync(matches[i].chunk)],
                             <<"\n">>)])

(* ----------------------- overlay relevance composer --------------------- *)

\* the variant that compares the label and the items as they are written
isOnTaskCardCaseSensitive(label, profile) ==
  \E i \in 1..Len(profile.taskCardItems) :
    \/ includes(label, profile.taskCardItems[i])
    \/ includes(profile.taskCardItems[i], label)

\* isOnTaskCard of rag.ts
isOnTaskCard(label, profile) ==
  LET lower == toLowerCase(label)
  IN  \E i \in 1..Len(profile.taskCardItems) :
        \/ includes(lower, toLowerCase(profile.taskCardItems[i]))
        \/ includes(toLowerCase(profile.taskCardItems[i]), lower)

\* `${mName} p.${manualRef.page}${fig}`
FormatRef(manualRef) ==
  LET mName == IF manualRef.manualName # <<>> THEN manualRef.manualName ELSE <<"S", "M">>
      fig == IF IsSet(manualRef.figure) /\ Val(manualRef.figure) # <<>>
             THEN <<",", " ", "F", "i", "g", " ">> \o Val(manualRef.figure) ELSE <<>>
  IN  mName \o <<" ", "p", ".">> \o NumberToString(manualRef.page) \o fig

\* Boolean(relevanceFromApi?.trim())
HasRelevance(relevanceFromApi) ==
  IsSet(relevanceFromApi) /\ trim(Val(relevanceFromApi)) # <<>>

\* the variant that appends the citation whatever the annotation says
BuildLineAlwaysAppends(manualRef, relevanceFromApi) ==
  LET line0 == IF HasRelevance(relevanceFromApi) THEN trim(Val(relevanceFromApi)) ELSE <<>>
  IN  IF IsSet(manualRef)
      THEN (IF line0 # <<>> THEN line0 \o <<" ", "·", " ">> \o FormatRef(Val(manualRef))
            ELSE FormatRef(Val(manualRef)))
      ELSE line0

\* the display line getOverlaySnippet builds when a profile is given
BuildLine(manualRef, relevanceFromApi) ==
  LET line0 == IF HasRelevance(relevanceFromApi) THEN trim(Val(relevanceFromApi)) ELSE <<>>
  IN  IF IsSet(manualRef) /\ ~includes(line0, <<" ", "p", ".">>)
      THEN (IF line0 # <<>> THEN line0 \o <<" ", "·", " ">> \o FormatRef(Val(manualRef))
            ELSE FormatRef(Val(manualRef)))
      ELSE line0

\* the variant whose line leaves the figure out
NoProfileDirectiveNoFigure(manualRef) ==
  IF IsSet(manualRef)
  THEN [emphasis |-> "medium", badge |-> Null,
        line |-> Some((IF Val(manualRef).manualName # <<>>
                       THEN Val(manualRef).manualName ELSE <<"S", "M">>)
                      \o <<" ", "p", ".">> \o NumberToString(Val(manualRef).page)),
        manualRef |-> manualRef]
  ELSE [emphasis |-> "none", badge |-> Null, line |-> Null, manualRef |-> Null]

\* the directive returned when no profile is given
NoProfileDirective(manualRef) ==
  IF IsSet(manualRef)
  THEN [emphasis |-> "medium", badge |-> Null,
        line |-> Some(FormatRef(Val(manualRef))), manualRef |-> manualRef]
  ELSE [emphasis |-> "none", badge |-> Null, line |-> Null, manualRef |-> Null]

\* the variant without the second branch: an empty line is returned as a line
OnCardDirectiveKeepsEmptyLine(line, manualRef) ==
  [emphasis |-> "high", badge |-> Some("On task card"),
   line |-> Some(line), manualRef |-> manualRef]

\* the directive of the two branches taken when the label is on the task card
OnCardDirective(line, manualRef) ==
  IF line # <<>>
  THEN [emphasis |-> "high", badge |-> Some("On task card"),
        line |-> Some(line), manualRef |-> manualRef]
  ELSE [emphasis |-> "high", badge |-> Some("On task card"),
        line |-> Null, manualRef |-> manualRef]

\* the variant whose emphasis is 'medium' for a line without a citation
OffCardDirectiveMediumWithoutRef(line, manualRef) ==
  IF line # <<>>
  THEN [emphasis |-> IF IsSet(manualRef) THEN "high" ELSE "medium", badge |-> Null,
        line |-> Some(line), manualRef |-> manualRef]
  ELSE [emphasis |-> "none", badge |-> Null, line |-> Null, manualRef |-> manualRef]

\* the directive of the two branches taken when the label is not on the task card
OffCardDirective(line, manualRef) ==
  IF line # <<>>
  THEN [emphasis |-> IF IsSet(manualRef) THEN "medium" ELSE "high", badge |-> Null,
        line |-> Some(line), manualRef |-> manualRef]
  ELSE [emphasis |-> "none", badge |-> Null, line |-> Null, manualRef |-> manualRef]

\* kbResult?.primaryRef ?? undefined, with kbResult = searchKBSync(label, 1)
LookupRef(kbOpt, label) ==
  LET kbResult == SearchKBSyncResult(kbOpt, label, 1)
  IN  IF IsSet(kbResult) THEN Val(kbResult).primaryRef ELSE Null

\* getOverlaySnippet, reading the knowledge base kbOpt through searchKBSync
getOverlaySnippet(kbOpt, label, profile, relevanceFromApi) ==
  LET manualRef == LookupRef(kbOpt, label)
      line == BuildLine(manualRef, relevanceFromApi)
  IN  IF ~IsSet(profile) THEN NoProfileDirective(manualRef)
      ELSE IF isOnTaskCard(label, Val(profile)) THEN OnCardDirective(line, manualRef)
      ELSE OffCardDirective(line, manualRef)

(* ------------------------------- inputs -------------------------------- *)

\* component labels / queries the callers pass
Labels ==
  {<<"S", "p", "a", "r", "k", " ", "P", "l", "u", "g">>, <<"O", "-", "3", "2", "0">>, <<"p", "l", "u", "g">>, <<"?">>, <<" ">>, <<"z", "z">>, <<"B", "r", "a", "k", "e">>, <<"D", "r", "a", "i", "n", " ", "P", "l", "u", "g">>, <<"W", "h", "e", "e", "l", "s">>}

\* maxChunks arguments
Ks == 1..MaxK

\* technician profiles: none, or one with a task card
Profiles ==
  {Null, Some([id |-> "preset-cessna-annual", taskCardItems |-> <<<<"s", "p", "a", "r", "k", " ", "p", "l", "u", "g", " ", "i", "n", "s", "p", "e", "c", "t", "i", "o", "n">>, <<"p", "l", "u", "g">>>>])}

\* relevanceFromApi arguments: undefined, blank, padded, with and without " p."
Relevances ==
  {Null, Some(<<" ">>), Some(<<" ", "A", "D", " ">>), Some(<<"s", "e", "e", " ", "p", ".", "5">>), Some(<<" ", "p", ".", "5">>)}

(* ------------------------------- state --------------------------------- *)

VARIABLES
  _kb,        \* the module variable _kb: Null or the KBData
  _loading,   \* the module variable _loading: Null or the load promise
  inFlight,   \* number of fetches of /cessna172-kb.json not yet settled
  fetches,    \* number of fetches started so far; the n-th makes load promise n
  outcome,    \* how the load settled: "none" while it has not, "ok", or the
              \* reason it failed
  waiting,    \* number of searchKB calls suspended at `await loadKnowledgeBase()`
  loaded,     \* the KBData value the load produced: the parsed data, or the
              \* empty knowledge base of the catch handler (history)
  ret,        \* the call that has just returned, with its arguments and result,
              \* until its caller has taken the result; NoCall otherwise
  \* ---- GeminiLiveClient (geminiLive.ts); connect() call n makes socket n ----
  ws,               \* this.ws: 0 for null, or the socket
  sockets,          \* readyState of each socket; "unused" before it is made,
                    \* "none" when the connect() call made no socket
  connects,         \* number of connect() calls made
  connectResult,    \* the promise of each connect() call: "unused", "pending",
                    \* "true" or "false"
  readyAtResolve,   \* for each promise resolved with true: had the socket of
                    \* this.ws received setupComplete by then (history)
  connectTimeoutId, \* this.connectTimeoutId: 0 for null, or n for the first
                    \* timer of connect() call n
  timerA,           \* the timer of lines 84-89 of each call: "unset", "pending",
                    \* "cleared" or "fired"
  timerB,           \* the timer of lines 119-123 of each call, likewise
  setupDone,        \* for each socket: its setupComplete message was handled
  sendQueue,        \* this.sendQueue
  wire,             \* what ws.send was given so far, in order, with the socket
  submitted,        \* number of messages the application has submitted
  isModelSpeaking,  \* this.isModelSpeaking
  connState,        \* the last state reported through onStateChange
  lateTimeout,      \* what timers did for a call whose setupComplete had been
                    \* handled: "none", "reported", "reported and closed" (history)
  \* ---- fetchOverlayRelevance (overlayRelevanceApi.ts) ----
  apiCall,          \* the fetchOverlayRelevance call in progress and where it is
  apiResult,        \* its returned promise: pending, resolved with a map, rejected
  dedalus429        \* setDedalus429() has been called

\* the variables of the knowledge base and the overlay composer
kbVars == <<_kb, _loading, inFlight, fetches, outcome, waiting, loaded, ret>>

\* the variables of the Gemini Live client
clientVars ==
  <<ws, sockets, connects, connectResult, readyAtResolve, connectTimeoutId, timerA,
    timerB, setupDone, sendQueue, wire, submitted, isModelSpeaking, connState,
    lateTimeout>>

\* the variables of the overlay relevance request
apiVars == <<apiCall, apiResult, dedalus429>>

vars == <<kbVars, clientVars, apiVars>>

\* connect() calls, which are also the sockets they make
Calls == 1..MaxConnects

\* a GeminiLiveClient after construction, before any call
ClientInit ==
  /\ ws = 0
  /\ sockets = [n \in Calls |-> "unused"]
  /\ connects = 0
  /\ connectResult = [n \in Calls |-> "unused"]
  /\ readyAtResolve = [n \in Calls |-> FALSE]
  /\ connectTimeoutId = 0
  /\ timerA = [n \in Calls |-> "unset"]
  /\ timerB = [n \in Calls |-> "unset"]
  /\ setupDone = [n \in Calls |-> FALSE]
  /\ sendQueue = <<>>
  /\ wire = <<>>
  /\ submitted = 0
  /\ isModelSpeaking = FALSE
  /\ connState = "disconnected"
  /\ lateTimeout = "none"

\* no fetchOverlayRelevance call has been made
NoApiCall == [phase |-> "idle", labels |-> <<>>, dedalus |-> FALSE]

\* the empty Record<string, string>
EmptyMap == <<>>

\* no promise has been returned
NoApiResult == [status |-> "none", map |-> EmptyMap, cause |-> "none"]

ApiInit ==
  /\ apiCall = NoApiCall
  /\ apiResult = NoApiResult
  /\ dedalus429 = FALSE


NoCall ==
  [op |-> "none", label |-> <<>>, maxChunks |-> 0, profile |-> Null,
   relevanceFromApi |-> Null, res |-> Null]

Init ==
  /\ _kb = Null
  /\ _loading = Null
  /\ inFlight = 0
  /\ fetches = 0
  /\ outcome = "none"
  /\ waiting = 0
  /\ loaded = Null
  /\ ret = NoCall
  /\ ClientInit
  /\ ApiInit

\* the module has been evaluated: its top-level loadKnowledgeBase() call was made
Imported == IsSet(_kb) \/ IsSet(_loading)

\* the variant that tests _kb only, and not _loading
loadKnowledgeBaseIgnoresLoading ==
  IF IsSet(_kb)
  THEN UNCHANGED <<_loading, inFlight, fetches>>
  ELSE /\ _loading' = Some(fetches + 1)
       /\ inFlight' = inFlight + 1
       /\ fetches' = fetches + 1

\* the body of loadKnowledgeBase up to its return: a fetch starts only when there is
\* neither a knowledge base nor a load promise
loadKnowledgeBase ==
  IF IsSet(_kb) \/ IsSet(_loading)
  THEN UNCHANGED <<_loading, inFlight, fetches>>
  ELSE /\ _loading' = Some(fetches + 1)
       /\ inFlight' = inFlight + 1
       /\ fetches' = fetches + 1

\* the top-level call loadKnowledgeBase() made when the module is imported
ModuleImport ==
  /\ ~Imported
  /\ loadKnowledgeBase
  /\ UNCHANGED <<_kb, outcome, waiting, loaded, ret>>
  /\ UNCHANGED <<clientVars, apiVars>>

\* JavaScript runs one call or handler at a time, to completion: the next one
\* starts once the caller of the previous call has taken its result
Idle == Imported /\ ret = NoCall

\* the caller takes the returned value
TakeResult ==
  /\ ret # NoCall
  /\ ret' = NoCall
  /\ UNCHANGED <<_kb, _loading, inFlight, fetches, outcome, waiting, loaded>>
  /\ UNCHANGED <<clientVars, apiVars>>

\* the ways the promise chain reaches its catch handler
LoadFailures == {"fetch rejected", "status not ok", "body not parsed"}

\* the fetch succeeds and res.json() yields data: _kb = data
FetchResolved ==
  /\ Idle
  /\ inFlight > 0
  /\ \E data \in FetchedData :
       /\ _kb' = Some(data)
       /\ loaded' = Some(data)
  /\ outcome' = "ok"
  /\ inFlight' = inFlight - 1
  /\ UNCHANGED <<_loading, fetches, waiting, ret>>
  /\ UNCHANGED <<clientVars, apiVars>>

\* the fetch rejects, the status is not OK or the body does not parse: the catch
\* handler clears _loading and installs the empty knowledge base
FetchFailed ==
  /\ Idle
  /\ inFlight > 0
  /\ _loading' = Null
  /\ _kb' = Some(EmptyKB)
  /\ loaded' = Some(EmptyKB)
  /\ \E reason \in LoadFailures : outcome' = reason
  /\ inFlight' = inFlight - 1
  /\ UNCHANGED <<fetches, waiting, ret>>
  /\ UNCHANGED <<clientVars, apiVars>>

\* searchKB(componentLabel, maxChunks) up to its await.  The arguments are not
\* read before the call resumes, so they are drawn when it resumes.
SearchKBCall ==
  /\ Idle
  /\ waiting < MaxWaiting
  /\ waiting' = waiting + 1
  /\ loadKnowledgeBase
  /\ UNCHANGED <<_kb, outcome, loaded, ret>>
  /\ UNCHANGED <<clientVars, apiVars>>

\* a suspended searchKB(label, k) call resumes with the loaded knowledge base and
\* returns its result
SearchKBResume ==
  /\ Idle
  /\ waiting > 0
  /\ IsSet(_kb)
  /\ \E label \in Labels, k \in Ks :
       LET kb == Val(_kb)
       IN  /\ ret' = [op |-> "searchKB", label |-> label, maxChunks |-> k,
                      profile |-> Null, relevanceFromApi |-> Null,
                      res |-> SearchKBResult(kb, label, k)]
           /\ _kb' = Some([kb EXCEPT !.chunks = ChunksAfterSearch(@, label)])
  /\ waiting' = waiting - 1
  /\ UNCHANGED <<_loading, inFlight, fetches, outcome, loaded>>
  /\ UNCHANGED <<clientVars, apiVars>>

\* _kb after a searchKBSync call
KbAfterSync(label) ==
  IF IsSet(_kb)
  THEN Some([Val(_kb) EXCEPT !.chunks = ChunksAfterSearchSync(@, label)])
  ELSE _kb

\* searchKBSync(componentLabel, maxChunks)
SearchKBSyncCall ==
  /\ Idle
  /\ \E label \in Labels, k \in Ks :
       /\ ret' = [op |-> "searchKBSync", label |-> label, maxChunks |-> k,
                  profile |-> Null, relevanceFromApi |-> Null,
                  res |-> SearchKBSyncResult(_kb, label, k)]
       /\ _kb' = KbAfterSync(label)
  /\ UNCHANGED <<_loading, inFlight, fetches, outcome, waiting, loaded>>
  /\ UNCHANGED <<clientVars, apiVars>>

\* getOverlaySnippet(label, profile, relevanceFromApi)
GetOverlaySnippetCall ==
  /\ Idle
  /\ \E label \in Labels, profile \in Profiles, rel \in Relevances :
       /\ ret' = [op |-> "getOverlaySnippet", label |-> label, maxChunks |-> 1,
                  profile |-> profile, relevanceFromApi |-> rel,
                  res |-> getOverlaySnippet(_kb, label, profile, rel)]
       /\ _kb' = KbAfterSync(label)
  /\ UNCHANGED <<_loading, inFlight, fetches, outcome, waiting, loaded>>
  /\ UNCHANGED <<clientVars, apiVars>>

Next ==
  \/ ModuleImport
  \/ FetchResolved
  \/ FetchFailed
  \/ SearchKBCall
  \/ SearchKBResume
  \/ SearchKBSyncCall
  \/ GetOverlaySnippetCall
  \/ TakeResult

Spec == Init /\ [][Next]_vars

(* ------------------------------- claims -------------------------------- *)

IsPrefix(a, b) == Len(a) <= Len(b) /\ SubSeq(b, 1, Len(a)) = a

\* the KBSearchResult the last call returned, when it was a search that returned one
ResultOf ==
  IF ret.op = "searchKB" THEN Some(ret.res)
  ELSE IF ret.op = "searchKBSync" THEN ret.res
  ELSE Null

\* C1: for every chunk c of the loaded corpus, whatever characters c.component
\* contains, the score searchKB computes for c when the query is c.component itself
\* is at least 25.
C1_OwnComponentScoresAtLeast25 ==
  (ret.op = "searchKB" /\ IsSet(_kb)) =>
    \A i \in 1..Len(Val(_kb).chunks) :
      Val(_kb).chunks[i].component = ret.label
        => Score(ret.label, Val(_kb).chunks[i]) >= 25

\* the lower-cased keywords, component, section title and content of a chunk
LexicalEntries(chunk) ==
  LET all == chunk.keywords \o <<chunk.component, chunk.sectionTitle, chunk.content>>
  IN  {toLowerCase(all[i]) : i \in 1..Len(all)}

\* no token of the normalized query equals, contains or is contained in any
\* keyword, component, section title or content of any chunk
NoLexicalOverlap(label, chunks) ==
  LET words == QueryWords(NormalizeQuery(label))
  IN  \A w \in 1..Len(words), i \in 1..Len(chunks) :
        \A e \in LexicalEntries(chunks[i]) :
          ~includes(e, words[w]) /\ ~includes(words[w], e)

\* C2: for every query that has no lexical overlap with any chunk (this covers a
\* query whose normalized form has no token at all), searchKB returns empty chunks,
\* empty refs, primaryRef = null and contextText = "".
C2_NoOverlapGivesEmptyResult ==
  (ret.op = "searchKB" /\ NoLexicalOverlap(ret.label, Val(_kb).chunks))
    => ret.res = EmptyResult

\* C3: determinism.  For the corpus as it was loaded, every searchKB(q, k) call
\* returns the value that q, k and that corpus determine, whichever searchKB,
\* searchKBSync and getOverlaySnippet calls ran before it; so two calls with the
\* same q and k return identical chunks, refs, primaryRef and contextText.
C3_Deterministic ==
  ret.op = "searchKB"
    => ret.res = SearchKBResult(Val(loaded), ret.label, ret.maxChunks)

\* a searchKB call returned several chunks, two of them with the same score
C3_Witness ==
  /\ ret.op = "searchKB"
  /\ Len(ret.res.chunks) >= 2
  /\ Score(ret.label, ret.res.chunks[1]) = Score(ret.label, ret.res.chunks[2])

\* C4: monotonic truncation.  For k > 0, searchKB(q, k).chunks has at most k
\* elements and is a prefix of searchKB(q, k + 1).chunks.
C4_MonotonicTruncation ==
  ret.op = "searchKB" =>
    /\ Len(ret.res.chunks) <= ret.maxChunks
    /\ IsPrefix(ret.res.chunks,
                SearchKBResult(Val(_kb), ret.label, ret.maxChunks + 1).chunks)

\* a searchKB(q, k) call returned exactly k chunks and k + 1 would return one more
C4_Witness ==
  /\ ret.op = "searchKB"
  /\ Len(ret.res.chunks) = ret.maxChunks
  /\ Len(SearchKBResult(Val(_kb), ret.label, ret.maxChunks + 1).chunks)
       = ret.maxChunks + 1

\* C5: deduplication.  In the result of every searchKB and searchKBSync call, refs
\* never holds two entries with the same (manualName, page) pair.
C5_RefsDeduplicated ==
  IsSet(ResultOf) =>
    LET refs == Val(ResultOf).refs
    IN  \A i, j \in 1..Len(refs) :
          i < j => ~(refs[i].manualName = refs[j].manualName /\ refs[i].page = refs[j].page)

\* a searchKBSync call returned more chunks than refs, and more than one ref
C5_Witness ==
  /\ ret.op = "searchKBSync"
  /\ IsSet(ret.res)
  /\ Len(Val(ret.res).refs) >= 2
  /\ Len(Val(ret.res).refs) < Len(Val(ret.res).chunks)

\* the positions in refs of the refs that stand for a ranked chunk
RefsFor(res, i) ==
  {r \in 1..Len(res.refs) :
     /\ res.refs[r].manualName = getManualName(res.chunks[i])
     /\ res.refs[r].page = res.chunks[i].page}

\* the ranked chunks a ref stands for
ChunksFor(res, r) ==
  {i \in 1..Len(res.chunks) :
     /\ res.refs[r].manualName = getManualName(res.chunks[i])
     /\ res.refs[r].page = res.chunks[i].page}

Min(S) == CHOOSE x \in S : \A y \in S : x <= y

\* citations in rank order, one per (display name, page), first occurrence wins
CitationsFirstWins(res) ==
  /\ \A i \in 1..Len(res.chunks) : Cardinality(RefsFor(res, i)) = 1
  /\ \A r \in 1..Len(res.refs) :
       /\ ChunksFor(res, r) # {}
       /\ LET c == res.chunks[Min(ChunksFor(res, r))]
          IN  /\ res.refs[r].section = c.section
              /\ res.refs[r].sectionTitle = c.sectionTitle
              /\ res.refs[r].figure = c.figure
  /\ \A r1, r2 \in 1..Len(res.refs) :
       r1 < r2 => Min(ChunksFor(res, r1)) < Min(ChunksFor(res, r2))

\* C6 as stated: citations are built in rank order and deduplicated by (source
\* document, page), first occurrence winning, and two ranked chunks with different
\* chunk.manual values are never collapsed into one ref, even on the same page.
C6_DifferentManualsNeverCollapsed ==
  ret.op = "searchKB" =>
    /\ CitationsFirstWins(ret.res)
    /\ \A i, j \in 1..Len(ret.res.chunks) :
         ret.res.chunks[i].manual # ret.res.chunks[j].manual
           => RefsFor(ret.res, i) # RefsFor(ret.res, j)

\* C6, amended: citations are built in rank order and deduplicated by (display name
\* of the manual, page), first occurrence winning: every ranked chunk's pair is in
\* refs exactly once, the ref kept carries the section, sectionTitle and figure of
\* the highest-ranked chunk with that pair, refs keep the order of those chunks, and
\* two ranked chunks whose manuals have different display names are never collapsed
\* into one ref, even on the same page.
C6_DedupByDisplayNameAndPage ==
  ret.op = "searchKB" =>
    /\ CitationsFirstWins(ret.res)
    /\ \A i, j \in 1..Len(ret.res.chunks) :
         getManualName(ret.res.chunks[i]) # getManualName(ret.res.chunks[j])
           => RefsFor(ret.res, i) # RefsFor(ret.res, j)

\* a searchKB call ranked two chunks of one (display name, page) with different
\* sections, and a chunk of another manual on the same page
C6_Witness ==
  /\ ret.op = "searchKB"
  /\ \E i, j, m \in 1..Len(ret.res.chunks) :
       /\ i < j
       /\ RefsFor(ret.res, i) = RefsFor(ret.res, j)
       /\ ret.res.chunks[i].section # ret.res.chunks[j].section
       /\ ret.res.chunks[m].page = ret.res.chunks[i].page
       /\ getManualName(ret.res.chunks[m]) # getManualName(ret.res.chunks[i])
  /\ Len(ret.res.refs) = 2

\* the last call was getOverlaySnippet with a profile
OverlayWithProfile == ret.op = "getOverlaySnippet" /\ IsSet(ret.profile)

\* C7: for a label that is not on the task card, with a profile and a non-empty
\* line, emphasis is 'medium' if the line came only from a manual citation and
\* 'high' whenever an annotation was supplied, also when a citation is present too.
C7_UnflaggedEmphasis ==
  ( /\ OverlayWithProfile
    /\ ~isOnTaskCard(ret.label, Val(ret.profile))
    /\ IsSet(ret.res.line) /\ Val(ret.res.line) # <<>> )
  => ret.res.emphasis = IF HasRelevance(ret.relevanceFromApi) THEN "high" ELSE "medium"

\* '<manual name> p.<page>' followed by ', Fig <figure>' when there is a figure
CitationText(cit) ==
  cit.manualName \o <<" ", "p", ".">> \o NumberToString(cit.page)
  \o (IF IsSet(cit.figure) THEN <<",", " ", "F", "i", "g", " ">> \o Val(cit.figure) ELSE <<>>)

\* C8: with profile = null, if the KB lookup yields a citation the directive is
\* emphasis 'medium', line '<manual name> p.<page>' (then ', Fig <figure>' when the
\* citation has a figure), the citation itself and no badge; without a citation it is
\* emphasis 'none' with badge, line and manualRef absent.  relevanceFromApi has no
\* influence on the result.
C8_NoProfile ==
  (ret.op = "getOverlaySnippet" /\ ~IsSet(ret.profile)) =>
    LET lookup == SearchKBSyncResult(_kb, ret.label, 1)
        cit == IF IsSet(lookup) THEN Val(lookup).primaryRef ELSE Null
    IN  /\ IsSet(cit) =>
             ret.res = [emphasis |-> "medium", badge |-> Null,
                        line |-> Some(CitationText(Val(cit))), manualRef |-> cit]
        /\ ~IsSet(cit) =>
             ret.res = [emphasis |-> "none", badge |-> Null, line |-> Null,
                        manualRef |-> Null]
        /\ \A rel \in Relevances :
             getOverlaySnippet(_kb, ret.label, Null, rel) = ret.res

\* getOverlaySnippet ran without a profile but with an annotation, and found a
\* citation that has a figure
C8_Witness ==
  /\ ret.op = "getOverlaySnippet"
  /\ ~IsSet(ret.profile)
  /\ HasRelevance(ret.relevanceFromApi)
  /\ IsSet(ret.res.manualRef)
  /\ IsSet(Val(ret.res.manualRef).figure)

\* C9: whenever a profile is supplied and the label is on its task card, the
\* directive has emphasis 'high' and badge 'On task card'; its line is the computed
\* line when that is non-empty, and is absent when it is empty.
C9_OnTaskCard ==
  (OverlayWithProfile /\ isOnTaskCard(ret.label, Val(ret.profile))) =>
    LET line == BuildLine(LookupRef(_kb, ret.label), ret.relevanceFromApi)
    IN  /\ ret.res.emphasis = "high"
        /\ ret.res.badge = Some("On task card")
        /\ line # <<>> => ret.res.line = Some(line)
        /\ line = <<>> => ret.res.line = Null

\* getOverlaySnippet ran for a label on the task card with neither annotation nor
\* citation
C9_Witness ==
  /\ OverlayWithProfile
  /\ isOnTaskCard(ret.label, Val(ret.profile))
  /\ ~HasRelevance(ret.relevanceFromApi)
  /\ ~IsSet(ret.res.manualRef)
  /\ IsSet(_kb)

\* the line of a directive, empty when it is absent
LineOf(res) == IF IsSet(res.line) THEN Val(res.line) ELSE <<>>

\* the trimmed annotation (if non-blank), then the citation text unless there is no
\* citation or mentionsPage holds, with ' · ' between the two when both are there
ComposedLine(relevanceFromApi, cit, mentionsPage) ==
  LET ann == IF IsSet(relevanceFromApi) THEN trim(Val(relevanceFromApi)) ELSE <<>>
      citText == IF IsSet(cit) /\ ~mentionsPage THEN CitationText(Val(cit)) ELSE <<>>
  IN  IF ann # <<>> /\ citText # <<>> THEN ann \o <<" ", "·", " ">> \o citText
      ELSE ann \o citText

\* C10 as stated: with a profile, the line is the trimmed annotation (if non-blank)
\* followed by the formatted citation (if there is one and the annotation does not
\* contain ' p.'), joined by ' · ' when both are present.
C10_LineByAnnotation ==
  OverlayWithProfile =>
    LineOf(ret.res) =
      ComposedLine(ret.relevanceFromApi, LookupRef(_kb, ret.label),
                   IsSet(ret.relevanceFromApi)
                     /\ includes(Val(ret.relevanceFromApi), <<" ", "p", ".">>))

\* C10, amended: with a profile, the line is the trimmed annotation (if non-blank)
\* followed by the formatted citation (if there is one and the trimmed annotation
\* does not contain ' p.'), joined by ' · ' when both are present; when the trimmed
\* annotation contains ' p.' the citation is not appended, and when neither part
\* exists the line is empty.
C10_LineByTrimmedAnnotation ==
  OverlayWithProfile =>
    LineOf(ret.res) =
      ComposedLine(ret.relevanceFromApi, LookupRef(_kb, ret.label),
                   IsSet(ret.relevanceFromApi)
                     /\ includes(trim(Val(ret.relevanceFromApi)), <<" ", "p", ".">>))

\* getOverlaySnippet ran with a profile, a citation and an annotation whose trimmed
\* text contains ' p.', and the line is the annotation alone
C10_Witness ==
  /\ OverlayWithProfile
  /\ IsSet(ret.res.manualRef)
  /\ IsSet(ret.relevanceFromApi)
  /\ includes(trim(Val(ret.relevanceFromApi)), <<" ", "p", ".">>)
  /\ LineOf(ret.res) = trim(Val(ret.relevanceFromApi))


(* ------------------------------ loading -------------------------------- *)

\* the chunk invariants of the data model: a page number of at least 1 and an id
\* no other chunk of the corpus has
ChunkValid(chunks, i) ==
  /\ chunks[i].page >= 1
  /\ \A j \in 1..Len(chunks) : chunks[j].id = chunks[i].id => j = i

CorpusValid(chunks) == \A i \in 1..Len(chunks) : ChunkValid(chunks, i)

\* C11: a corpus in which some chunk violates the chunk invariants (page < 1, a
\* duplicated chunk id) is never stored and none of its chunks is ever returned by
\* a search; a corpus whose chunks are all valid is stored with as many chunks as
\* the input has.
C11_InvalidCorpusRejected ==
  /\ IsSet(_kb) => CorpusValid(Val(_kb).chunks)
  /\ IsSet(ResultOf) =>
       \A i \in 1..Len(Val(ResultOf).chunks) : Val(ResultOf).chunks[i].page >= 1
  /\ (outcome = "ok" /\ CorpusValid(Val(loaded).chunks)) =>
       /\ IsSet(_kb)
       /\ Len(Val(_kb).chunks) = Len(Val(loaded).chunks)

\* the load has settled through the catch handler
LoadFailed == outcome \in LoadFailures

\* C12: after a failed load attempt (fetch rejected, status not OK, body not
\* parsed) the store is in its previous state, that is, still unloaded, and the
\* store never holds part of a corpus.
C12_FailedLoadLeavesStoreUnloaded ==
  /\ LoadFailed => _kb = Null
  /\ IsSet(_kb) => _kb = loaded

\* C12, amended: a failed load attempt clears the load promise and installs the
\* empty knowledge base (no chunks, empty title, document number, revision and pdf
\* file, zero pages) in the store, which was unloaded before; the store is never
\* partial: it is unloaded until the load settles, and from then on it is exactly
\* the value the load produced.
C12_FailedLoadInstallsEmptyCorpus ==
  /\ LoadFailed =>
       /\ _loading = Null
       /\ IsSet(_kb)
       /\ Val(_kb).chunks = <<>>
       /\ Val(_kb).manual.title = <<>>
       /\ Val(_kb).manual.documentNumber = <<>>
       /\ Val(_kb).manual.revision = <<>>
       /\ Val(_kb).manual.totalPages = 0
       /\ Val(_kb).manual.pdfFile = <<>>
  /\ outcome = "none" => _kb = Null
  /\ outcome # "none" => IsSet(_kb) /\ _kb = loaded

\* the load failed because the status was not OK, and a search has run since
C12_Witness ==
  /\ outcome = "status not ok"
  /\ ret.op = "searchKB"
  /\ inFlight = 0

NothingMatches(label, chunks) ==
  \A i \in 1..Len(chunks) : Score(label, chunks[i]) = 0

\* C14: a searchKB call against a corpus with zero chunks (the one a failed load
\* installs included) returns a result, and it is the empty result: no chunks, no
\* refs, primaryRef null, contextText ""; a query that matches nothing in a
\* non-empty corpus returns that same result.
C14_EmptyCorpusIsNoMatch ==
  (ret.op = "searchKB" /\ NothingMatches(ret.label, Val(_kb).chunks)) =>
    /\ ret.res.chunks = <<>>
    /\ ret.res.refs = <<>>
    /\ ret.res.primaryRef = Null
    /\ ret.res.contextText = <<>>

\* a searchKB call has returned from the empty corpus installed by a failed load
C14_Witness ==
  /\ ret.op = "searchKB"
  /\ LoadFailed
  /\ Val(_kb).chunks = <<>>
  /\ ret.res.chunks = <<>>

\* where chunk c stands in the corpus (the chunks of a corpus differ pairwise)
PositionIn(chunks, c) == CHOOSE i \in 1..Len(chunks) : chunks[i] = c

InResult(res, c) == \E i \in 1..Len(res.chunks) : res.chunks[i] = c

\* chunks a and b of the corpus, a before b, have the same positive score
TiedPair(label, chunks, a, b) ==
  /\ a < b
  /\ Score(label, chunks[a]) > 0
  /\ Score(label, chunks[a]) = Score(label, chunks[b])

\* C15: of two chunks with the same positive score that are both in the result of
\* searchKB, the one that stands earlier in the corpus stands earlier in chunks; and
\* the later one is in the result only if the earlier one is.
C15_TiesKeepCorpusOrder ==
  ret.op = "searchKB" =>
    LET corpus == Val(_kb).chunks
    IN  \A a, b \in 1..Len(corpus) :
          (TiedPair(ret.label, corpus, a, b) /\ InResult(ret.res, corpus[b])) =>
            /\ InResult(ret.res, corpus[a])
            /\ PositionIn(ret.res.chunks, corpus[a]) < PositionIn(ret.res.chunks, corpus[b])

\* searchKB returned the earlier of two equal-scored chunks and cut off the later
C15_Witness ==
  /\ ret.op = "searchKB"
  /\ \E a, b \in 1..Len(Val(_kb).chunks) :
       /\ TiedPair(ret.label, Val(_kb).chunks, a, b)
       /\ InResult(ret.res, Val(_kb).chunks[a])
       /\ ~InResult(ret.res, Val(_kb).chunks[b])

(* ------------------------- before the load ends ------------------------- *)

\* a call of searchKBSync or getOverlaySnippet is made and returns
SyncStep ==
  /\ ret.op = "none"
  /\ ret'.op \in {"searchKBSync", "getOverlaySnippet"}

\* C16: a searchKBSync call made while the knowledge base is not loaded returns
\* null, whatever the label and maxChunks, and a getOverlaySnippet call made then
\* returns a directive without manualRef, with emphasis 'none' when no profile is
\* given; the call returns in the step it is made in, and it starts no fetch, makes
\* no load promise, suspends nothing and leaves the store as it is.
C16_SyncBeforeLoad ==
  [][ SyncStep =>
        /\ UNCHANGED <<_loading, inFlight, fetches, waiting, outcome>>
        /\ ~IsSet(_kb) =>
             /\ ~IsSet(_kb')
             /\ ret'.op = "searchKBSync" => ret'.res = Null
             /\ ret'.op = "getOverlaySnippet" =>
                  /\ ret'.res.manualRef = Null
                  /\ ~IsSet(ret'.profile) => ret'.res.emphasis = "none" ]_vars

\* searchKBSync returned while the fetch was still in flight
C16_Witness ==
  /\ ret.op = "searchKBSync"
  /\ ~IsSet(_kb)
  /\ inFlight = 1

(* ------------------------------ task card ------------------------------- *)

\* one of a and b, both lower-cased, is a substring of the other
SubstringEitherWay(a, b) ==
  \/ includes(toLowerCase(a), toLowerCase(b))
  \/ includes(toLowerCase(b), toLowerCase(a))

\* C17: the directive getOverlaySnippet returns has the badge 'On task card' if
\* and only if a profile is given and, for one of its taskCardItems, the label and
\* the item are substrings of each other in one direction, letter case ignored.
C17_BadgeIffOnTaskCard ==
  ret.op = "getOverlaySnippet" =>
    ( ret.res.badge = Some("On task card")
      <=> /\ IsSet(ret.profile)
          /\ \E i \in 1..Len(Val(ret.profile).taskCardItems) :
               SubstringEitherWay(ret.label, Val(ret.profile).taskCardItems[i]) )

\* the badge was given to a label that differs in case from the item it is part of
C17_Witness ==
  /\ ret.op = "getOverlaySnippet"
  /\ IsSet(ret.profile)
  /\ ret.res.badge = Some("On task card")
  /\ ~isOnTaskCardCaseSensitive(ret.label, Val(ret.profile))

(* ----------------------------- scoring rules ---------------------------- *)

\* C18: for every chunk of the corpus searchKB scored, the keyword phrase rule
\* contributes 0, 8 or 20: the +8 is given once at most, and the rule never gives
\* more than 20 in total.
C18_KeywordPhraseAtMostOnce ==
  ret.op = "searchKB" =>
    \A i \in 1..Len(Val(_kb).chunks) :
      PhraseScore(NormalizeQuery(ret.label), Val(_kb).chunks[i].keywords) \in {0, 8, 20}

\* what one entry awards a token: 10 if equal, else 5 if the entry contains the
\* token, else 3 if the token contains the entry and the entry has more than 3
\* characters, else 0
EntryAward(entry, word) ==
  IF entry = word THEN 10
  ELSE IF includes(entry, word) THEN 5
  ELSE IF includes(word, entry) /\ Len(entry) > 3 THEN 3
  ELSE 0

\* the award of the best test any entry passes
BestAward(entries, word) ==
  IF \E i \in 1..Len(entries) : entries[i] = word THEN 10
  ELSE IF \E i \in 1..Len(entries) : includes(entries[i], word) THEN 5
  ELSE IF \E i \in 1..Len(entries) : includes(word, entries[i]) /\ Len(entries[i]) > 3
       THEN 3
  ELSE 0

\* the award of the first entry, in the order keywords, component, section title,
\* that awards anything
FirstAward(entries, word) ==
  LET hits == {i \in 1..Len(entries) : EntryAward(entries[i], word) > 0}
  IN  IF hits = {} THEN 0 ELSE EntryAward(entries[Min(hits)], word)

\* the token rule gives every token of the query, for every chunk, what award(entries, token) says
TokenRuleIs(award(_, _)) ==
  ret.op = "searchKB" =>
    LET words == QueryWords(NormalizeQuery(ret.label))
    IN  \A i \in 1..Len(Val(_kb).chunks), w \in 1..Len(words) :
          LET entries == allKeywords(Val(_kb).chunks[i])
          IN  WordScore(words[w], entries) = award(entries, words[w])

\* C19: a token contributes +10 if it equals any of the lower-cased keywords,
\* component and section title of the chunk, otherwise +5 if some entry contains
\* it, otherwise +3 if it contains some entry longer than 3 characters, otherwise
\* 0, regardless of the order of the entries.
C19_TokenBestAward == TokenRuleIs(BestAward)

\* C19, amended: the entries are scanned in the order keywords, component, section
\* title, and the first entry that passes any of the three tests decides: +10 if it
\* equals the token, else +5 if it contains the token, else +3 (the token contains
\* it and it is longer than 3 characters); 0 if no entry passes a test.  A token
\* equal to an entry gets +10 only if no earlier entry passes a test.
C19_TokenFirstAward == TokenRuleIs(FirstAward)

\* searchKB scored a chunk in which an entry equals a token of the query, and the
\* token got the +5 of an earlier entry that contains it
C19_Witness ==
  /\ ret.op = "searchKB"
  /\ LET words == QueryWords(NormalizeQuery(ret.label))
     IN  \E i \in 1..Len(Val(_kb).chunks), w \in 1..Len(words) :
           LET entries == allKeywords(Val(_kb).chunks[i])
           IN  /\ \E e \in 1..Len(entries) : entries[e] = words[w]
               /\ WordScore(words[w], entries) = 5

\* C20: for no chunk of the corpus searchKB scored are both the +25 for the
\* component being the query and the +20 for a keyword being the query added.
C20_PhraseAwardsExclusive ==
  ret.op = "searchKB" =>
    \A i \in 1..Len(Val(_kb).chunks) :
      LET query == NormalizeQuery(ret.label)
          chunk == Val(_kb).chunks[i]
      IN  \/ ExactComponentAward(query, chunk) = 0
          \/ ExactKeywordAward(query, chunk.keywords) = 0

(* ------------------------------- ranking -------------------------------- *)

\* C21: every chunk searchKB returns has a score above 0 for the query, the
\* returned chunks are in non-increasing score order, no chunk of the corpus that
\* was left out scores more than a returned one, and as many chunks are returned
\* as score above 0, up to maxChunks.
C21_TopPositiveChunksInScoreOrder ==
  ret.op = "searchKB" =>
    LET corpus == Val(_kb).chunks
        res == ret.res.chunks
        positives == {i \in 1..Len(corpus) : Score(ret.label, corpus[i]) > 0}
    IN  /\ \A i \in 1..Len(res) :
             /\ Score(ret.label, res[i]) > 0
             /\ \E j \in 1..Len(corpus) : corpus[j] = res[i]
        /\ \A i \in 1..(Len(res) - 1) :
             Score(ret.label, res[i]) >= Score(ret.label, res[i + 1])
        /\ \A j \in 1..Len(corpus), i \in 1..Len(res) :
             ~InResult(ret.res, corpus[j]) =>
               Score(ret.label, corpus[j]) <= Score(ret.label, res[i])
        /\ Len(res) = Min({ret.maxChunks, Cardinality(positives)})

\* searchKB returned chunks with different scores, the higher first, and left out
\* a chunk that scores above 0
C21_Witness ==
  /\ ret.op = "searchKB"
  /\ Len(ret.res.chunks) >= 2
  /\ Score(ret.label, ret.res.chunks[1]) > Score(ret.label, ret.res.chunks[2])
  /\ \E j \in 1..Len(Val(_kb).chunks) :
       /\ ~InResult(ret.res, Val(_kb).chunks[j])
       /\ Score(ret.label, Val(_kb).chunks[j]) > 0

\* two optional citations are both absent, or both present with the same manual
\* name and page
SameCitation(a, b) ==
  /\ IsSet(a) <=> IsSet(b)
  /\ (IsSet(a) /\ IsSet(b)) =>
       /\ Val(a).manualName = Val(b).manualName
       /\ Val(a).page = Val(b).page

\* C22: with a corpus loaded, the manualRef getOverlaySnippet obtained for a label
\* and the primaryRef of searchKB(label, 1) on the same corpus are both absent, or
\* they name the same manual and page.
C22_OverlayCitationIsPrimaryCitation ==
  (ret.op = "getOverlaySnippet" /\ IsSet(_kb)) =>
    SameCitation(ret.res.manualRef, SearchKBResult(Val(_kb), ret.label, 1).primaryRef)

\* C23: once the store holds a knowledge base, no step changes it: the stored
\* value, its chunks and their order stay as they are over every call of
\* searchKB, searchKBSync and getOverlaySnippet and every load event.
C23_CorpusNeverMutated == [][IsSet(_kb) => _kb' = _kb]_vars

\* searchKB returned from a corpus whose order is not its score order, and the
\* store still holds what the load produced
C23_Witness ==
  /\ ret.op = "searchKB"
  /\ ChunksSortedInPlace(Val(loaded).chunks, ret.label) # Val(loaded).chunks
  /\ _kb = loaded

(* ---------------------------- result shape ------------------------------ *)

\* the chunk has a figure
HasFigure(chunk) == IsSet(chunk.figure) /\ Val(chunk.figure) # <<>>

\* the citation prefix of a chunk: manual, section, page, and the figure with its
\* title when the chunk has one
CitationPrefix(chunk) ==
  <<"[">> \o getManualName(chunk) \o <<" ", "S", "e", "c", "t", "i", "o", "n", " ">> \o chunk.section \o <<",", " ", "p", ".">>
  \o NumberToString(chunk.page)
  \o (IF HasFigure(chunk)
      THEN <<" ", "(", "F", "i", "g", "u", "r", "e", " ">> \o Val(chunk.figure) \o <<":", " ">> \o Interpolate(chunk.figureTitle) \o <<")">>
      ELSE <<>>)
  \o <<"]", ":", " ">>

\* C24: the contextText of a searchKB result is, for each returned chunk in rank
\* order, the chunk's own citation prefix followed by its content, with a blank
\* line between consecutive entries: one entry per chunk, also for chunks that
\* share a citation.
C24_ContextTextPerRankedChunk ==
  ret.op = "searchKB" =>
    ret.res.contextText =
      join([i \in 1..Len(ret.res.chunks) |->
              CitationPrefix(ret.res.chunks[i]) \o ret.res.chunks[i].content],
           <<"\n", "\n">>)

\* searchKB returned more chunks than refs, one chunk with a figure and one without
C24_Witness ==
  /\ ret.op = "searchKB"
  /\ Len(ret.res.refs) < Len(ret.res.chunks)
  /\ \E i, j \in 1..Len(ret.res.chunks) :
       HasFigure(ret.res.chunks[i]) /\ ~HasFigure(ret.res.chunks[j])

\* C25: in every result of searchKB and searchKBSync, primaryRef is the first of
\* refs and null when refs is empty; refs is empty exactly when chunks is; there
\* are at least one and at most as many refs as chunks when chunks is not empty;
\* and primaryRef has the page and the manual name of the first chunk.
C25_PrimaryRefIsFirstRef ==
  IsSet(ResultOf) =>
    LET res == Val(ResultOf)
    IN  /\ res.primaryRef = (IF res.refs = <<>> THEN Null ELSE Some(res.refs[1]))
        /\ (res.refs = <<>>) <=> (res.chunks = <<>>)
        /\ res.chunks # <<>> =>
             /\ 1 <= Len(res.refs)
             /\ Len(res.refs) <= Len(res.chunks)
             /\ IsSet(res.primaryRef)
             /\ Val(res.primaryRef).page = res.chunks[1].page
             /\ Val(res.primaryRef).manualName = getManualName(res.chunks[1])

\* searchKBSync returned two refs with different pages
C25_Witness ==
  /\ ret.op = "searchKBSync"
  /\ IsSet(ret.res)
  /\ Len(Val(ret.res).refs) >= 2
  /\ Val(ret.res).refs[1].page # Val(ret.res).refs[2].page

\* C26: in every directive getOverlaySnippet returns, a badge comes with emphasis
\* 'high'; with emphasis 'none' there is no badge, no line and no manualRef; a
\* manualRef comes with a non-empty line; and emphasis 'medium' comes with a
\* manualRef.
C26_DirectiveConsistent ==
  ret.op = "getOverlaySnippet" =>
    /\ IsSet(ret.res.badge) => ret.res.emphasis = "high"
    /\ ret.res.emphasis = "none" =>
         (~IsSet(ret.res.badge) /\ ~IsSet(ret.res.line) /\ ~IsSet(ret.res.manualRef))
    /\ IsSet(ret.res.manualRef) => (IsSet(ret.res.line) /\ Val(ret.res.line) # <<>>)
    /\ ret.res.emphasis = "medium" => IsSet(ret.res.manualRef)

\* a directive for a label that is not on the task card of the given profile, with
\* an annotation and a citation, and emphasis 'medium'
C26_Witness ==
  /\ OverlayWithProfile
  /\ ~IsSet(ret.res.badge)
  /\ HasRelevance(ret.relevanceFromApi)
  /\ IsSet(ret.res.manualRef)
  /\ ret.res.emphasis = "medium"

(* --------------------------- GeminiLiveClient --------------------------- *)

\* the setup message sendSetup builds
SetupMessage == [id |-> 0, kind |-> "setup"]

\* this.ws?.readyState === WebSocket.OPEN, with the readyStates socks
IsOpen(socks, s) == s # 0 /\ socks[s] = "OPEN"

\* resolveOnce(ok) of connect() call n: only the first call resolves the promise
resolveOnce(results, n, ok) ==
  IF results[n] = "pending" THEN [results EXCEPT ![n] = ok] ELSE results

\* ws.close() on socket s: the readyState becomes CLOSING, the close event follows
closeSocket(socks, s) ==
  IF socks[s] \in {"CONNECTING", "OPEN"} THEN [socks EXCEPT ![s] = "CLOSING"] ELSE socks

\* sendJSON(msg): queued unless this.ws is open, else handed to this.ws.send
sendJSON(msg, socks) ==
  IF ~IsOpen(socks, ws)
  THEN /\ sendQueue' = Append(sendQueue, msg)
       /\ UNCHANGED wire
  ELSE /\ wire' = Append(wire, [sock |-> ws, msg |-> msg])
       /\ UNCHANGED sendQueue

\* flushSendQueue(): the whole queue goes to this.ws, in order, if it is open
flushSendQueue ==
  IF IsOpen(sockets, ws)
  THEN /\ wire' = wire \o [i \in 1..Len(sendQueue) |-> [sock |-> ws, msg |-> sendQueue[i]]]
       /\ sendQueue' = <<>>
  ELSE UNCHANGED <<sendQueue, wire>>

\* connect(apiKey)
Connect ==
  /\ connects < MaxConnects
  /\ LET n == connects + 1
     IN  /\ connects' = n
         /\ IF IsOpen(sockets, ws)
            THEN /\ connectResult' = [connectResult EXCEPT ![n] = "true"]
                 /\ readyAtResolve' = [readyAtResolve EXCEPT ![n] = setupDone[ws]]
                 /\ sockets' = [sockets EXCEPT ![n] = "none"]
                 /\ UNCHANGED <<ws, connectTimeoutId, timerA, timerB, connState>>
            ELSE /\ connState' = "connecting"
                 /\ sockets' = [sockets EXCEPT ![n] = "CONNECTING"]
                 /\ ws' = n
                 /\ connectTimeoutId' = n
                 /\ timerA' = [timerA EXCEPT ![n] = "pending"]
                 /\ timerB' = [timerB EXCEPT ![n] = "pending"]
                 /\ connectResult' = [connectResult EXCEPT ![n] = "pending"]
                 /\ UNCHANGED readyAtResolve
  /\ UNCHANGED <<setupDone, sendQueue, wire, submitted, isModelSpeaking, lateTimeout>>
  /\ UNCHANGED <<kbVars, apiVars>>

\* what both timer callbacks of call n do after their first line: resolveOnce(false),
\* onStateChange('error', 'Connection timed out'), and ws.close() if this.ws === ws
TimeoutBody(n) ==
  /\ connectResult' = resolveOnce(connectResult, n, "false")
  /\ connState' = "error: Connection timed out"
  /\ sockets' = IF ws = n THEN closeSocket(sockets, n) ELSE sockets
  /\ lateTimeout' =
       IF ~setupDone[n] THEN lateTimeout
       ELSE IF ws = n /\ sockets[n] = "OPEN" THEN "reported and closed"
       ELSE IF lateTimeout = "none" THEN "reported"
       ELSE lateTimeout
  /\ UNCHANGED <<ws, connects, readyAtResolve, setupDone, sendQueue, wire, submitted,
                 isModelSpeaking>>
  /\ UNCHANGED <<kbVars, apiVars>>

\* the timer of lines 84-89 of call n fires
TimerAFires ==
  \E n \in Calls :
    /\ timerA[n] = "pending"
    /\ timerA' = [timerA EXCEPT ![n] = "fired"]
    /\ connectTimeoutId' = 0
    /\ TimeoutBody(n)
    /\ UNCHANGED timerB

\* the timer of lines 119-123 of call n fires; it was set after the first one, with
\* the same delay, and nothing ever clears it
TimerBFires ==
  \E n \in Calls :
    /\ timerB[n] = "pending"
    /\ timerA[n] # "pending"
    /\ timerB' = [timerB EXCEPT ![n] = "fired"]
    /\ TimeoutBody(n)
    /\ UNCHANGED <<timerA, connectTimeoutId>>

\* ws.onopen of socket s: onStateChange('settingUp'), sendSetup
SocketOpen ==
  \E s \in Calls :
    /\ sockets[s] = "CONNECTING"
    /\ LET socks == [sockets EXCEPT ![s] = "OPEN"]
       IN  /\ sockets' = socks
           /\ sendJSON(SetupMessage, socks)
    /\ connState' = "settingUp"
    /\ UNCHANGED <<ws, connects, connectResult, readyAtResolve, connectTimeoutId, timerA,
                   timerB, setupDone, submitted, isModelSpeaking, lateTimeout>>
    /\ UNCHANGED <<kbVars, apiVars>>

\* the server has received a setup message on socket s
SetupReceived(s) ==
  \E i \in 1..Len(wire) : wire[i].sock = s /\ wire[i].msg.kind = "setup"

\* ws.onmessage of socket s with a setupComplete message
ServerSetupComplete ==
  \E s \in Calls :
    /\ sockets[s] = "OPEN"
    /\ SetupReceived(s)
    /\ ~setupDone[s]
    /\ setupDone' = [setupDone EXCEPT ![s] = TRUE]
    /\ IF connectTimeoutId # 0
       THEN /\ timerA' = [timerA EXCEPT ![connectTimeoutId] =
                            IF @ = "pending" THEN "cleared" ELSE @]
            /\ connectTimeoutId' = 0
       ELSE UNCHANGED <<timerA, connectTimeoutId>>
    /\ connState' = "ready"
    /\ flushSendQueue
    /\ connectResult' = resolveOnce(connectResult, s, "true")
    /\ readyAtResolve' =
         IF connectResult[s] = "pending"
         THEN [readyAtResolve EXCEPT ![s] = (ws # 0 /\ setupDone'[ws])]
         ELSE readyAtResolve
    /\ UNCHANGED <<ws, sockets, connects, timerB, submitted, isModelSpeaking, lateTimeout>>
    /\ UNCHANGED <<kbVars, apiVars>>

\* ws.onmessage of socket s with a goAway message
ServerGoAway ==
  \E s \in Calls :
    /\ sockets[s] = "OPEN"
    /\ setupDone[s]
    /\ connState' = "disconnected"
    /\ UNCHANGED <<ws, sockets, connects, connectResult, readyAtResolve, connectTimeoutId,
                   timerA, timerB, setupDone, sendQueue, wire, submitted, isModelSpeaking,
                   lateTimeout>>
    /\ UNCHANGED <<kbVars, apiVars>>

\* ws.onmessage of socket s with serverContent: an audio part of a model turn sets
\* isModelSpeaking, interrupted or turnComplete clears it
ServerContent ==
  \E s \in Calls, speaking \in BOOLEAN :
    /\ sockets[s] = "OPEN"
    /\ setupDone[s]
    /\ isModelSpeaking' = speaking
    /\ UNCHANGED <<ws, sockets, connects, connectResult, readyAtResolve, connectTimeoutId,
                   timerA, timerB, setupDone, sendQueue, wire, submitted, connState,
                   lateTimeout>>
    /\ UNCHANGED <<kbVars, apiVars>>

\* ws.onclose of socket s: this.ws = null, onStateChange('disconnected'),
\* resolveOnce(false)
OnClose(s) ==
  /\ sockets' = [sockets EXCEPT ![s] = "CLOSED"]
  /\ ws' = 0
  /\ connState' = "disconnected"
  /\ connectResult' = resolveOnce(connectResult, s, "false")
  /\ UNCHANGED <<connects, readyAtResolve, connectTimeoutId, timerA, timerB, setupDone,
                 sendQueue, wire, submitted, isModelSpeaking, lateTimeout>>
  /\ UNCHANGED <<kbVars, apiVars>>

\* the close event of socket s: the server closed it, or a close() has finished
SocketClosed ==
  \E s \in Calls :
    /\ sockets[s] \in {"OPEN", "CLOSING"}
    /\ OnClose(s)

\* the connection of socket s fails: ws.onerror reports 'error' and calls
\* resolveOnce(false), and the close event that follows it in the same task runs
\* ws.onclose, whose report replaces the one of onerror
SocketError ==
  \E s \in Calls :
    /\ sockets[s] \in {"CONNECTING", "OPEN"}
    /\ OnClose(s)

\* disconnect()
Disconnect ==
  /\ sockets' = IF ws # 0 THEN closeSocket(sockets, ws) ELSE sockets
  /\ ws' = 0
  /\ sendQueue' = <<>>
  /\ isModelSpeaking' = FALSE
  /\ connState' = "disconnected"
  /\ UNCHANGED <<connects, connectResult, readyAtResolve, connectTimeoutId, timerA, timerB,
                 setupDone, wire, submitted, lateTimeout>>
  /\ UNCHANGED <<kbVars, apiVars>>

\* what a send call leaves alone
SendFrame ==
  /\ UNCHANGED <<ws, sockets, connects, connectResult, readyAtResolve, connectTimeoutId,
                 timerA, timerB, setupDone, isModelSpeaking, connState, lateTimeout>>
  /\ UNCHANGED <<kbVars, apiVars>>

\* sendToolResponse(callId, name, result): the message number stands for its content
SendToolResponse ==
  /\ submitted < MaxMessages
  /\ submitted' = submitted + 1
  /\ sendJSON([id |-> submitted + 1, kind |-> "toolResponse"], sockets)
  /\ SendFrame

\* sendAudio(pcmBase64): returns at once unless this.ws is open
SendAudio ==
  /\ submitted < MaxMessages
  /\ submitted' = submitted + 1
  /\ IF IsOpen(sockets, ws)
     THEN sendJSON([id |-> submitted + 1, kind |-> "audio"], sockets)
     ELSE UNCHANGED <<sendQueue, wire>>
  /\ SendFrame

\* sendVideoFrame(jpegBase64): returns at once unless this.ws is open
SendVideoFrame ==
  /\ submitted < MaxMessages
  /\ submitted' = submitted + 1
  /\ IF IsOpen(sockets, ws)
     THEN sendJSON([id |-> submitted + 1, kind |-> "video"], sockets)
     ELSE UNCHANGED <<sendQueue, wire>>
  /\ SendFrame

GeminiNext ==
  \/ Connect
  \/ TimerAFires
  \/ TimerBFires
  \/ SocketOpen
  \/ ServerSetupComplete
  \/ ServerGoAway
  \/ ServerContent
  \/ SocketClosed
  \/ SocketError
  \/ Disconnect
  \/ SendToolResponse
  \/ SendAudio
  \/ SendVideoFrame

GeminiSpec == Init /\ [][GeminiNext]_vars

\* C27: once the setupComplete message of a connect() call has been handled, no
\* timer of that call reports state 'error' with 'Connection timed out' and none
\* closes the socket.
C27_NoTimeoutAfterSetupComplete == lateTimeout = "none"

\* C28: the promise of every connect() call that has resolved with true was
\* resolved when the socket the client held had received setupComplete.
C28_TrueOnlyAfterSetupComplete ==
  \A n \in Calls : connectResult[n] = "true" => readyAtResolve[n]

\* the messages of the application that have reached a socket, in the order they did
SentByApplication ==
  LET own(e) == e.msg.kind # "setup"
  IN  SelectSeq(wire, own)

\* C29: the messages of the application reach the socket in the order they were
\* submitted in, a queued message before every message submitted after it; and no
\* audio or video frame is ever in the queue.
C29_SubmissionOrder ==
  /\ \A i, j \in 1..Len(SentByApplication) :
       i < j => SentByApplication[i].msg.id < SentByApplication[j].msg.id
  /\ \A i \in 1..Len(sendQueue) : sendQueue[i].kind \notin {"audio", "video"}

(* ------------------------ fetchOverlayRelevance ------------------------- *)

\* label lists the overlay passes
ApiLabelLists ==
  {<<>>, <<<<"S", "p", "a", "r", "k", " ", "P", "l", "u", "g">>>>, <<<<"S", "p", "a", "r", "k", " ", "P", "l", "u", "g">>, <<"B", "r", "a", "k", "e">>>>, <<<<"B", "r", "a", "k", "e">>, <<"T", "I", "R", "E">>>>}

\* elements of the array the model answers with: a label in another letter case
\* with a padded phrase, a blank phrase, a label that is not in the list, and an
\* element without a string label
ResponseItems ==
  << [label |-> Some(<<"s", "p", "a", "r", "k", " ", "p", "l", "u", "g">>), relevance |-> Some(<<" ", "A", "D", " ", "R", "e", "q", "u", "i", "r", "e", "d", " ">>)],
     [label |-> Some(<<"B", "r", "a", "k", "e">>), relevance |-> Some(<<" ">>)],
     [label |-> Some(<<" ", "T", "i", "r", "e">>), relevance |-> Some(<<"C", "r", "i", "t", "i", "c", "a", "l">>)],
     [label |-> Null, relevance |-> Some(<<"C", "r", "i", "t", "i", "c", "a", "l">>)] >>

\* what JSON.parse makes of the cleaned text: a SyntaxError, a value that is not an
\* array, or an array of elements
JsonValues ==
  {[kind |-> "invalid", items |-> <<>>], [kind |-> "object", items |-> <<>>]}
  \cup {[kind |-> "array", items |-> [i \in 1..Len(ix) |-> ResponseItems[ix[i]]]] :
          ix \in DistinctSeqs(1..Len(ResponseItems), 2)}

\* the text of the first choice: JSON, bare or inside a ``` fence
ResponseTexts == {[fenced |-> f, json |-> j] : f \in BOOLEAN, j \in JsonValues}

\* the text used when the response has no content: '[]'
EmptyArrayText == [fenced |-> FALSE, json |-> [kind |-> "array", items |-> <<>>]]

\* text.replace(/^```(?:json)?\s*/i, '').replace(/\s*```$/i, '').trim(), parsed
CleanedJson(text) == text.json

\* map[key] = value
Put(map, key, value) ==
  [k \in (DOMAIN map) \cup {key} |-> IF k = key THEN value ELSE map[k]]

\* labels.find(l => l.toLowerCase() === label.toLowerCase()) ?? label
KeyFor(labels, label) ==
  LET hits == {i \in 1..Len(labels) : toLowerCase(labels[i]) = toLowerCase(label)}
  IN  IF hits = {} THEN label ELSE labels[Min(hits)]

\* the body of the loop over the array: elements without a string label and a
\* string relevance, and elements whose trimmed relevance is empty, are skipped
AddItem(map, o, labels) ==
  IF IsSet(o.label) /\ IsSet(o.relevance) /\ trim(Val(o.relevance)) # <<>>
  THEN Put(map, KeyFor(labels, trim(Val(o.label))), trim(Val(o.relevance)))
  ELSE map

RECURSIVE AddItems(_, _, _)
AddItems(map, items, labels) ==
  IF items = <<>> THEN map
  ELSE AddItems(AddItem(map, Head(items), labels), Tail(items), labels)

\* parseRelevanceJson(text, labels)
parseRelevanceJson(text, labels) ==
  LET arr == CleanedJson(text)
  IN  IF arr.kind = "array" THEN AddItems(EmptyMap, arr.items, labels) ELSE EmptyMap

\* the returned promise settles
Resolved(map, cause) == [status |-> "resolved", map |-> map, cause |-> cause]
Rejected(cause) == [status |-> "rejected", map |-> EmptyMap, cause |-> cause]

\* fetchOverlayRelevance(labels, profile) up to its first await; apiKey stands for
\* env.geminiApiKey and isDedalusApiKey(apiKey), backoff for isDedalusBackoff(...)
FetchOverlayRelevanceCall ==
  /\ apiCall.phase = "idle"
  /\ \E labels \in ApiLabelLists, profile \in Profiles,
        apiKey \in {"none", "dedalus", "google"},
        backoff \in (IF dedalus429 THEN BOOLEAN ELSE {FALSE}) :
       IF ~IsSet(profile)
       THEN /\ apiResult' = Resolved(EmptyMap, "no profile")
            /\ apiCall' = [phase |-> "settled", labels |-> labels, dedalus |-> FALSE]
       ELSE IF Len(labels) = 0
       THEN /\ apiResult' = Resolved(EmptyMap, "no labels")
            /\ apiCall' = [phase |-> "settled", labels |-> labels, dedalus |-> FALSE]
       ELSE IF apiKey = "none"
       THEN /\ apiResult' = Resolved(EmptyMap, "no api key")
            /\ apiCall' = [phase |-> "settled", labels |-> labels, dedalus |-> FALSE]
       ELSE IF apiKey = "dedalus" /\ backoff
       THEN /\ apiResult' = Resolved(EmptyMap, "backoff")
            /\ apiCall' = [phase |-> "settled", labels |-> labels, dedalus |-> TRUE]
       ELSE /\ apiResult' = [status |-> "pending", map |-> EmptyMap, cause |-> "none"]
            /\ apiCall' = [phase |-> "fetch", labels |-> labels,
                           dedalus |-> (apiKey = "dedalus")]
  /\ UNCHANGED dedalus429
  /\ UNCHANGED <<kbVars, clientVars>>

\* `await fetch(...)` rejects (no network): the promise of fetchDedalus or
\* fetchGoogle rejects, and fetchOverlayRelevance, which returned it without
\* awaiting it inside its try block, rejects with it
FetchRejected ==
  /\ apiCall.phase = "fetch"
  /\ apiResult' = Rejected("network request failed")
  /\ apiCall' = [apiCall EXCEPT !.phase = "settled"]
  /\ UNCHANGED dedalus429
  /\ UNCHANGED <<kbVars, clientVars>>

\* the response is not OK: {} is returned, after setDedalus429() for a 429 from
\* Dedalus
ResponseNotOk ==
  /\ apiCall.phase = "fetch"
  /\ \E status \in {429, 500} :
       dedalus429' = (dedalus429 \/ (apiCall.dedalus /\ status = 429))
  /\ apiResult' = Resolved(EmptyMap, "response not ok")
  /\ apiCall' = [apiCall EXCEPT !.phase = "settled"]
  /\ UNCHANGED <<kbVars, clientVars>>

\* the response is OK: the call goes on to `await res.json()`
ResponseOk ==
  /\ apiCall.phase = "fetch"
  /\ apiCall' = [apiCall EXCEPT !.phase = "body"]
  /\ UNCHANGED <<apiResult, dedalus429>>
  /\ UNCHANGED <<kbVars, clientVars>>

\* `await res.json()` rejects (the body is not JSON): the call rejects
BodyUnreadable ==
  /\ apiCall.phase = "body"
  /\ apiResult' = Rejected("response body is not JSON")
  /\ apiCall' = [apiCall EXCEPT !.phase = "settled"]
  /\ UNCHANGED dedalus429
  /\ UNCHANGED <<kbVars, clientVars>>

\* res.json() yields data: the text of the first choice, or '[]' when there is
\* none, goes through parseRelevanceJson
BodyRead ==
  /\ apiCall.phase = "body"
  /\ \E content \in {Null} \cup {Some(t) : t \in ResponseTexts} :
       LET text == IF IsSet(content) THEN Val(content) ELSE EmptyArrayText
       IN  apiResult' =
             Resolved(parseRelevanceJson(text, apiCall.labels),
                      IF CleanedJson(text).kind = "array" THEN "parsed"
                      ELSE "text is not a JSON array")
  /\ apiCall' = [apiCall EXCEPT !.phase = "settled"]
  /\ UNCHANGED dedalus429
  /\ UNCHANGED <<kbVars, clientVars>>

\* the caller has awaited the promise; the next call can be made
ApiTakeResult ==
  /\ apiCall.phase = "settled"
  /\ apiCall' = NoApiCall
  /\ apiResult' = NoApiResult
  /\ UNCHANGED dedalus429
  /\ UNCHANGED <<kbVars, clientVars>>

ApiNext ==
  \/ FetchOverlayRelevanceCall
  \/ FetchRejected
  \/ ResponseNotOk
  \/ ResponseOk
  \/ BodyUnreadable
  \/ BodyRead
  \/ ApiTakeResult

ApiSpec == Init /\ [][ApiNext]_vars

\* the outcomes the claim lists as failures
ApiFailures ==
  {"no profile", "no labels", "no api key", "response not ok",
   "text is not a JSON array", "network request failed"}

\* C30: the promise fetchOverlayRelevance returns is never rejected; when the
\* profile is null, the label list is empty, no API key is configured, the response
\* is not OK, the text is not a JSON array or the network request fails, it resolves
\* to the empty map; and every value of a map it resolves to is a non-empty string.
C30_NeverRejects ==
  /\ apiResult.status # "rejected"
  /\ apiResult.cause \in ApiFailures =>
       (apiResult.status = "resolved" /\ apiResult.map = EmptyMap)
  /\ apiResult.status = "resolved" =>
       \A k \in DOMAIN apiResult.map : apiResult.map[k] # <<>>
=============================================================================
